---- MODULE Spec2Model ----
(***************************************************************************)
(* array_lib.h: StackArray, HeapArray and GrowingArray, with the heap they  *)
(* allocate from.  Containers are the instances 1..MaxInst; heap blocks are *)
(* handed out by malloc and never reused, so that a leak, a double free and *)
(* an access outside a block stay visible.                                  *)
(***************************************************************************)
EXTENDS Integers, Sequences, FiniteSets, TLC

\* ------------------------------------------------------------------ bounds
MaxInst == 2
MaxBlocks == 4
MaxPush == 4
MaxLength == 2

Inst == 1..MaxInst
\* the addresses malloc hands out: MaxBlocks to the calls made for each container
Block == 1..(MaxInst * MaxBlocks)
\* the values a caller stores
Values == {1, 2}
\* sizeof(T) of the element type the templates are instantiated with
SizeofTs == {1, 2}

\* nullptr
Null == 0
\* T(): a value-initialised element
DefaultVal == 0
AllVals == Values \cup {DefaultVal}

VARIABLES
  sizeofT,   \* sizeof(T)
  heap,      \* Block -> the block malloc returned under that address
  obj,       \* Inst -> the container's fields
  status,    \* "running", "aborted" (abort() was called) or "crashed"
  ubs,       \* the kinds of undefined behaviour executed so far
  oom,       \* a malloc of more than 0 bytes has returned nullptr
  fatal,     \* the operator[] call that called abort(), once one has
  log        \* Inst -> history of the container (not program state)

vars == <<sizeofT, heap, obj, status, ubs, oom, fatal, log>>

\* ------------------------------------------------------------------- heap
\* raw storage: no object lives there
RawSlot == [val |-> DefaultVal, init |-> FALSE, ctor |-> 0, dtor |-> 0]

NoBlock ==
  [st |-> "unused", bytes |-> 0, want |-> 0, site |-> "none", owner |-> Null,
   frees |-> 0, data |-> <<>>]

\* the number of whole T objects that fit the block
Slots(h, b) == Len(h[b].data)

\* begin[i] lies entirely inside a live block
InBlock(h, b, i) == b # Null /\ h[b].st = "live" /\ i >= 0 /\ i < Slots(h, b)

\* Accessing begin[0..n-1]: the undefined behaviour it executes, if any.
AccessUB(h, b, n) ==
  IF n = 0 THEN {}
  ELSE IF b = Null THEN {"null"}
  ELSE IF h[b].st # "live" THEN {"freed"}
  ELSE IF n > Slots(h, b) THEN {"overflow"}
  ELSE {}

\* the addresses never handed out yet that a call made for container o may get
Unused(h, o) ==
  {b \in ((o - 1) * MaxBlocks + 1)..(o * MaxBlocks) : h[b].st = "unused"}

FreshBlock(h, o) == CHOOSE b \in Unused(h, o) : \A c \in Unused(h, o) : b <= c

\* The pointers malloc(bytes) may return to a call made for container o: a block
\* never handed out before, or nullptr when the request is for 0 bytes or
\* (fail) when memory is exhausted.
MallocResults(h, o, bytes, fail) ==
  (IF Unused(h, o) # {} THEN {FreshBlock(h, o)} ELSE {})
    \cup (IF bytes = 0 \/ fail THEN {Null} ELSE {})

\* The heap after malloc(bytes) returned p; want, site and owner record which
\* call asked and for how many elements.
AfterMalloc(h, p, bytes, sz, want, site, owner) ==
  IF p = Null THEN h
  ELSE [h EXCEPT ![p] =
          [st |-> "live", bytes |-> bytes, want |-> want, site |-> site,
           owner |-> owner, frees |-> 0,
           data |-> [k \in 1..(bytes \div sz) |-> RawSlot]]]

\* What is left in a slot whose value was moved out or whose storage was
\* released: unspecified, and never read again.
Unspecified(slot) == [slot EXCEPT !.val = DefaultVal]

\* free(b)
Free(h, b) ==
  IF b = Null THEN h
  ELSE [h EXCEPT ![b].st = "freed", ![b].frees = @ + 1,
                 ![b].data = [k \in 1..Len(h[b].data) |-> Unspecified(h[b].data[k])]]

\* T(move(b[i])) for i = 0 .. n-1, seen from the source b
MoveOutRange(h, b, n) ==
  IF b = Null \/ h[b].st # "live" THEN h
  ELSE [h EXCEPT ![b].data =
          [k \in 1..Len(h[b].data) |->
             IF k <= n THEN Unspecified(h[b].data[k]) ELSE h[b].data[k]]]

FreeUB(h, b) == IF b # Null /\ h[b].st # "live" THEN {"doublefree"} ELSE {}

\* new (b + i) T(vals[i+1]) for i = 0 .. n-1; a store outside the block is lost
ConstructRange(h, b, n, vals) ==
  IF b = Null \/ h[b].st # "live" THEN h
  ELSE [h EXCEPT ![b].data =
          [k \in 1..Len(h[b].data) |->
             IF k <= n
             THEN [val |-> vals[k], init |-> TRUE,
                   ctor |-> h[b].data[k].ctor + 1, dtor |-> h[b].data[k].dtor]
             ELSE h[b].data[k]]]

\* b[i] = v : copy assignment to the slot
AssignSlot(h, b, i, v) ==
  IF InBlock(h, b, i)
  THEN [h EXCEPT ![b].data[i + 1].val = v, ![b].data[i + 1].init = TRUE]
  ELSE h

\* b[i].~T() for i = 0 .. n-1
DestructRange(h, b, n) ==
  IF b = Null \/ h[b].st # "live" THEN h
  ELSE [h EXCEPT ![b].data =
          [k \in 1..Len(h[b].data) |->
             IF k <= n
             THEN [h[b].data[k] EXCEPT !.dtor = @ + 1]
             ELSE h[b].data[k]]]

\* What reading b[0..n-1] may yield: the stored value where an object lives,
\* any value elsewhere.
ReadRange(h, b, n) ==
  {s \in [1..n -> AllVals] :
     \A k \in 1..n :
       (InBlock(h, b, k - 1) /\ h[b].data[k].init) => s[k] = h[b].data[k].val}

\* ------------------------------------------------------------- containers
NoObj ==
  [kind |-> "none", st |-> "none", begin |-> Null, size |-> 0, capacity |-> 0,
   c_array |-> <<>>]

\* origin: how the container was constructed; items: the value last pushed or
\* stored at each position; grown: <<old, new>> capacity of each growth
NoLog ==
  [origin |-> "none", from |-> Null, movedFrom |-> FALSE, n |-> 0,
   items |-> <<>>, grown |-> <<>>, got |-> Null]

NoCall == [o |-> Null, index |-> 0, len |-> 0]
NoRef == <<"none", 0, 0>>

Live(o) == obj[o].st = "live"
Unborn(o) == obj[o].st = "none"

\* a length() that returns a size member for every container
LengthFromSize(c) == c.size

\* length(): StackArray returns N, the heap containers return size
Length(c) == IF c.kind = "stack" THEN Len(c.c_array) ELSE c.size

\* the free function length(const T(&)[N])
length(arr) == Len(arr)

\* a bounds test that lets index = n through
OutOfBoundsOffByOne(index, n) == index > n

\* the test of operator[]: index >= N, index >= size
OutOfBounds(index, n) == index >= n

\* the reference operator[] returns: c_array[index], begin[index]
ElementRef(o, c, index) ==
  IF c.kind = "stack" THEN <<"c_array", o, index>> ELSE <<"begin", c.begin, index>>

Init ==
  /\ sizeofT \in SizeofTs
  /\ heap = [b \in Block |-> NoBlock]
  /\ obj = [o \in Inst |-> NoObj]
  /\ status = "running"
  /\ ubs = {}
  /\ oom = FALSE
  /\ fatal = NoCall
  /\ log = [o \in Inst |-> NoLog]

\* An operation that executed the undefined behaviour `kinds` either crashes
\* the process or goes on; without any it completes.
Outcomes(kinds) == IF kinds = {} THEN {"running"} ELSE {"running", "crashed"}

Complete(kinds, h, objs, logs, failed) ==
  /\ ubs' = ubs \cup kinds
  /\ oom' = (oom \/ failed)
  /\ UNCHANGED <<sizeofT, fatal>>
  /\ \E out \in Outcomes(kinds) :
       IF out = "crashed"
       THEN /\ status' = "crashed"
            /\ UNCHANGED <<heap, obj, log>>
       ELSE /\ status' = "running"
            /\ heap' = h
            /\ obj' = objs
            /\ log' = logs

\* abort(): the process ends, nothing else changes
Abort(o, index) ==
  /\ status' = "aborted"
  /\ fatal' = [o |-> o, index |-> index, len |-> Length(obj[o])]
  /\ UNCHANGED <<sizeofT, heap, obj, ubs, oom, log>>

\* A container is constructed in the lowest instance not yet used.
NextInst(o) == Unborn(o) /\ \A p \in Inst : p < o => ~Unborn(p)

\* -------------------------------------------------------------- StackArray
\* StackArray<T, N> a{...}: aggregate initialisation of c_array
StackArray_init(o, arr) ==
  /\ status = "running"
  /\ NextInst(o)
  /\ Complete({}, heap,
       [obj EXCEPT ![o] = [NoObj EXCEPT !.kind = "stack", !.st = "live", !.c_array = arr]],
       [log EXCEPT ![o] = [NoLog EXCEPT !.origin = "aggregate", !.n = Len(arr), !.items = arr]], FALSE)

\* --------------------------------------------------------------- operator[]
\* T& operator[](index) of the three containers: "abort" when it calls abort(),
\* else the reference it returns (c_array[index], begin[index]).
OperatorIndex(o, c, index) ==
  IF OutOfBounds(index, Length(c))
  THEN [abort |-> TRUE, ref |-> NoRef]
  ELSE [abort |-> FALSE, ref |-> ElementRef(o, c, index)]

\* c[index]: the call alone; nothing is read or written through the reference
Index(o, index) ==
  /\ status = "running"
  /\ Live(o)
  /\ IF OperatorIndex(o, obj[o], index).abort
     THEN Abort(o, index)
     ELSE UNCHANGED vars

\* c[index] = v: operator[] and a store through the reference it returned
Store(o, index, v) ==
  /\ status = "running"
  /\ Live(o)
  /\ LET c == obj[o]
     IN IF OperatorIndex(o, c, index).abort
        THEN Abort(o, index)
        ELSE IF c.kind = "stack"
        THEN Complete({}, heap, [obj EXCEPT ![o].c_array[index + 1] = v],
                      [log EXCEPT ![o].items[index + 1] = v], FALSE)
        ELSE Complete(AccessUB(heap, c.begin, index + 1),
                      AssignSlot(heap, c.begin, index, v), obj,
                      [log EXCEPT ![o].items[index + 1] = v], FALSE)

\* --------------------------------------------------------------- HeapArray
\* the bytes HeapArray(length) and the two copy() ask malloc for
ElementBytes(n, sz) == n

\* HeapArray(size_t length)
HeapArray_ctor(o, len, fail) ==
  /\ status = "running"
  /\ NextInst(o)
  /\ \E p \in MallocResults(heap, o, ElementBytes(len, sizeofT), fail) :
       LET h1 == AfterMalloc(heap, p, ElementBytes(len, sizeofT), sizeofT, len, "HeapArray", o)
           h2 == ConstructRange(h1, p, len, [k \in 1..len |-> DefaultVal])
       IN Complete(AccessUB(h1, p, len), h2,
            [obj EXCEPT ![o] = [NoObj EXCEPT !.kind = "heap", !.st = "live",
                                             !.begin = p, !.size = len]],
            [log EXCEPT ![o] = [NoLog EXCEPT !.origin = "ctor", !.n = len,
                                        !.items = [k \in 1..len |-> DefaultVal]]], p = Null /\ len > 0)

\* a move constructor that forgets temp.begin = nullptr
MovedFromKeepsBlock(c) == [c EXCEPT !.size = 0]

\* what a move constructor leaves of its argument: temp.begin = nullptr; temp.size = 0
MovedFrom(c) == [c EXCEPT !.begin = Null, !.size = 0]

\* HeapArray(HeapArray&& temp) and GrowingArray(GrowingArray&& temp)
MoveConstruct(d, s, kind) ==
  /\ status = "running"
  /\ NextInst(d)
  /\ Live(s)
  /\ obj[s].kind = kind
  /\ Complete({}, heap,
       [obj EXCEPT ![d] = [NoObj EXCEPT !.kind = kind, !.st = "live",
                                        !.begin = obj[s].begin, !.size = obj[s].size,
                                        !.capacity = obj[s].capacity],
                   ![s] = MovedFrom(obj[s])],
       [log EXCEPT ![d] = [NoLog EXCEPT !.origin = "move", !.from = s,
                                        !.n = obj[s].size, !.got = obj[s].begin,
                                        !.items = log[s].items],
                   ![s].movedFrom = TRUE, ![s].items = <<>>], FALSE)

HeapArray_move(d, s) == MoveConstruct(d, s, "heap")

\* HeapArray copy(): result{0}, then a block of its own and a copy of each element
HeapArray_copy(d, s, fail) ==
  /\ status = "running"
  /\ NextInst(d)
  /\ Live(s)
  /\ obj[s].kind = "heap"
  /\ LET c == obj[s]
         bytes == ElementBytes(c.size, sizeofT)
     IN \E p0 \in MallocResults(heap, d, ElementBytes(0, sizeofT), fail) :
          LET h0 == AfterMalloc(heap, p0, ElementBytes(0, sizeofT), sizeofT, 0, "HeapArray", d)
          IN \E p \in MallocResults(h0, d, bytes, fail) :
               LET h1 == AfterMalloc(h0, p, bytes, sizeofT, c.size, "HeapArray::copy", d)
               IN \E vals \in ReadRange(h1, c.begin, c.size) :
                    Complete(AccessUB(h1, c.begin, c.size) \cup AccessUB(h1, p, c.size),
                      ConstructRange(h1, p, c.size, vals),
                      [obj EXCEPT ![d] = [NoObj EXCEPT !.kind = "heap", !.st = "live",
                                                       !.begin = p, !.size = c.size]],
                      [log EXCEPT ![d] = [NoLog EXCEPT !.origin = "copy", !.from = s,
                                                       !.n = c.size,
                                                       !.items = log[s].items]], p = Null /\ c.size > 0)

\* ~HeapArray() and ~GrowingArray(): destruct begin[0..size-1], free(begin)
Destroy(o, kind) ==
  /\ status = "running"
  /\ Live(o)
  /\ obj[o].kind = kind
  /\ LET c == obj[o]
     IN Complete(AccessUB(heap, c.begin, c.size) \cup FreeUB(heap, c.begin),
          Free(DestructRange(heap, c.begin, c.size), c.begin),
          [obj EXCEPT ![o].st = "dead"],
          [log EXCEPT ![o].items = [k \in 1..Len(@) |-> DefaultVal]], FALSE)

HeapArray_dtor(o) == Destroy(o, "heap")

\* ------------------------------------------------------------ GrowingArray
\* GrowingArray()
GrowingArray_ctor(o) ==
  /\ status = "running"
  /\ NextInst(o)
  /\ Complete({}, heap,
       [obj EXCEPT ![o] = [NoObj EXCEPT !.kind = "grow", !.st = "live"]],
       [log EXCEPT ![o] = [NoLog EXCEPT !.origin = "default"]], FALSE)

GrowingArray_move(d, s) == MoveConstruct(d, s, "grow")

\* GrowingArray copy()
GrowingArray_copy(d, s, fail) ==
  /\ status = "running"
  /\ NextInst(d)
  /\ Live(s)
  /\ obj[s].kind = "grow"
  /\ LET c == obj[s]
         bytes == ElementBytes(c.size, sizeofT)
     IN \E p \in MallocResults(heap, d, bytes, fail) :
          LET h1 == AfterMalloc(heap, p, bytes, sizeofT, c.size, "GrowingArray::copy", d)
          IN \E vals \in ReadRange(h1, c.begin, c.size) :
               Complete(AccessUB(h1, c.begin, c.size) \cup AccessUB(h1, p, c.size),
                 ConstructRange(h1, p, c.size, vals),
                 [obj EXCEPT ![d] = [NoObj EXCEPT !.kind = "grow", !.st = "live",
                                                  !.begin = p, !.size = c.size,
                                                  !.capacity = c.size]],
                 [log EXCEPT ![d] = [NoLog EXCEPT !.origin = "copy", !.from = s,
                                                  !.n = c.size,
                                                  !.items = log[s].items]], p = Null /\ c.size > 0)

\* growth without the capacity = 1 of an empty array
GrownCapacityFromZero(capacity) == (capacity * 3 + 1) \div 2

\* growth without the + 1: (capacity * 3) / 2
GrownCapacityTruncated(capacity) == ((IF capacity = 0 THEN 1 ELSE capacity) * 3) \div 2

\* push, growing: if (capacity == 0) capacity = 1; capacity = (capacity * 3 + 1) / 2
GrownCapacity(capacity) == ((IF capacity = 0 THEN 1 ELSE capacity) * 3 + 1) \div 2

\* a move loop that stops one element early
MovedCountShort(size) == IF size > 0 THEN size - 1 ELSE 0

\* push, growing: the elements moved into the new block, for (i = 0; i != size; ++i)
MovedCount(size) == size

\* push, growing: what becomes of the old block once begin = new_begin
OldBlockAfterGrowth(h, old) == h

\* void push(const T& item)
GrowingArray_push(o, item, fail) ==
  /\ status = "running"
  /\ Live(o)
  /\ obj[o].kind = "grow"
  /\ obj[o].size < MaxPush
  /\ LET c == obj[o]
         grow == c.size = c.capacity
         cap == IF grow THEN GrownCapacity(c.capacity) ELSE c.capacity
     IN \E nb \in (IF grow THEN MallocResults(heap, o, cap * sizeofT, fail) ELSE {c.begin}) :
          LET h1 == IF grow
                    THEN AfterMalloc(heap, nb, cap * sizeofT, sizeofT, cap,
                                     "GrowingArray::push", o)
                    ELSE heap
              n == IF grow THEN MovedCount(c.size) ELSE 0
          IN \E vals \in ReadRange(h1, c.begin, n) :
               LET h2 == IF grow
                         THEN OldBlockAfterGrowth(
                                MoveOutRange(ConstructRange(h1, nb, n, vals), c.begin, n),
                                c.begin)
                         ELSE h1
                   h3 == AssignSlot(h2, nb, c.size, item)
               IN Complete(AccessUB(h1, c.begin, n) \cup AccessUB(h1, nb, n)
                             \cup AccessUB(h2, nb, c.size + 1),
                    h3,
                    [obj EXCEPT ![o].begin = nb, ![o].capacity = cap, ![o].size = c.size + 1],
                    [log EXCEPT ![o].items = Append(@, item),
                                ![o].grown = IF grow THEN Append(@, <<c.capacity, cap>>) ELSE @],
                    grow /\ nb = Null)

GrowingArray_dtor(o) == Destroy(o, "grow")

\* ------------------------------------------------------------------- next
\* the arrays a StackArray is initialised from
StackInits(V) == UNION {[1..n -> V] : n \in 1..MaxLength}
\* the indexes a caller passes: every element and the first one past the end
Indexes(o) == 0..Length(obj[o])

\* the answers to "does malloc fail now?" among F: at most one call of a
\* behaviour fails
Failing(F) == IF oom THEN {FALSE} ELSE F

\* One operation of the program, malloc failing as F allows and the caller's
\* values drawn from V.
Step(F, V) ==
  \/ \E o \in Inst, arr \in StackInits(V) : StackArray_init(o, arr)
  \/ \E o \in Inst : \E i \in Indexes(o) : Index(o, i)
  \/ \E o \in Inst : \E i \in Indexes(o), v \in V : Store(o, i, v)
  \/ \E o \in Inst, n \in 0..MaxLength, f \in Failing(F) : HeapArray_ctor(o, n, f)
  \/ \E d \in Inst, s \in Inst : HeapArray_move(d, s)
  \/ \E d \in Inst, s \in Inst, f \in Failing(F) : HeapArray_copy(d, s, f)
  \/ \E o \in Inst : HeapArray_dtor(o)
  \/ \E o \in Inst : GrowingArray_ctor(o)
  \/ \E d \in Inst, s \in Inst : GrowingArray_move(d, s)
  \/ \E d \in Inst, s \in Inst, f \in Failing(F) : GrowingArray_copy(d, s, f)
  \/ \E o \in Inst, v \in V, f \in Failing(F) : GrowingArray_push(o, v, f)
  \/ \E o \in Inst : GrowingArray_dtor(o)

\* malloc always finds memory
Next == Step({FALSE}, Values)
Spec == Init /\ [][Next]_vars

\* malloc may return nullptr; one element value is told apart
NextOOM == Step(BOOLEAN, {1})
SpecOOM == Init /\ [][NextOOM]_vars

\* ------------------------------------------- growing_array (array_lib.h)
\* The earlier growing_array of array_lib.h, whose push grows by
\* (capacity * 3) / 2 and calls realloc without using what it returns.

\* growing_array()
growing_array_ctor(o) ==
  /\ status = "running"
  /\ NextInst(o)
  /\ Complete({}, heap,
       [obj EXCEPT ![o] = [NoObj EXCEPT !.kind = "growing_array", !.st = "live"]],
       [log EXCEPT ![o] = [NoLog EXCEPT !.origin = "default"]], FALSE)

\* push, growing: if (capacity == 0) capacity = 1; capacity = (capacity * 3) / 2
growing_array_capacity(capacity) == ((IF capacity = 0 THEN 1 ELSE capacity) * 3) \div 2

\* realloc(begin, bytes), its result discarded: for begin = nullptr it is
\* malloc(bytes), and the block it returns is referenced by nothing
ReallocDiscarded(h, o, b, bytes, want) ==
  {AfterMalloc(h, p, bytes, sizeofT, want, "growing_array::push", o) :
     p \in MallocResults(h, o, bytes, FALSE)}

\* void push(const T& item)
growing_array_push(o, item) ==
  /\ status = "running"
  /\ Live(o)
  /\ obj[o].kind = "growing_array"
  /\ obj[o].size < MaxPush
  /\ LET c == obj[o]
         grow == c.size = c.capacity
         cap == IF grow THEN growing_array_capacity(c.capacity) ELSE c.capacity
     IN \E h1 \in (IF grow THEN ReallocDiscarded(heap, o, c.begin, cap * sizeofT, cap)
                            ELSE {heap}) :
          Complete(AccessUB(h1, c.begin, c.size + 1),
            AssignSlot(h1, c.begin, c.size, item),
            [obj EXCEPT ![o].capacity = cap, ![o].size = c.size + 1],
            [log EXCEPT ![o].items = Append(@, item),
                        ![o].grown = IF grow THEN Append(@, <<c.capacity, cap>>) ELSE @],
            FALSE)

\* ~growing_array()
growing_array_dtor(o) == Destroy(o, "growing_array")

NextLib ==
  \/ \E o \in Inst : growing_array_ctor(o)
  \/ \E o \in Inst, v \in Values : growing_array_push(o, v)
  \/ \E o \in Inst : \E i \in Indexes(o) : Index(o, i)
  \/ \E o \in Inst : \E i \in Indexes(o), v \in Values : Store(o, i, v)
  \/ \E o \in Inst : growing_array_dtor(o)

SpecLib == Init /\ [][NextLib]_vars

\* ----------------------------------------------------------------- claims
\* what a caller reads at c[i]: the stored value where an element lives
Elem(o, i) ==
  LET b == obj[o].begin
  IN IF InBlock(heap, b, i) /\ heap[b].data[i + 1].init
     THEN [ok |-> TRUE, val |-> heap[b].data[i + 1].val]
     ELSE [ok |-> FALSE, val |-> DefaultVal]

Expect(v) == [ok |-> TRUE, val |-> v]

Growing(o) == obj[o].kind = "grow"

\* default-constructed, and only pushed to and stored into since
FromEmpty(o) == Growing(o) /\ log[o].origin = "default" /\ ~log[o].movedFrom

\* C1: a default-constructed GrowingArray that received k pushes has
\* length() = k and reads back, at every i < k, the item pushed i-th (or the
\* value stored there since), however many reallocations happened.
C1_GrowthCorrectness ==
  \A o \in Inst :
    (FromEmpty(o) /\ Live(o)) =>
      /\ Length(obj[o]) = Len(log[o].items)
      /\ \A k \in 1..Len(log[o].items) : Elem(o, k - 1) = Expect(log[o].items[k])

C1_Witness ==
  \E o \in Inst :
    /\ FromEmpty(o) /\ Live(o)
    /\ Len(log[o].items) = MaxPush
    /\ Len(log[o].grown) >= 3
    /\ log[o].items[1] # log[o].items[2]
    /\ Elem(o, 0) = Expect(log[o].items[1])

\* C2 as claimed: from capacity 0 the capacities after the growth events are
\* 1, 2, 3, 5, 8: the first growth gives 1, every later one (old * 3 + 1) / 2.
ClaimedCapacities == <<1, 2, 3, 5, 8, 12, 18, 27>>

C2_ClaimedSequence ==
  \A o \in Inst :
    FromEmpty(o) =>
      \A k \in 1..Len(log[o].grown) :
        /\ log[o].grown[k][2] = ClaimedCapacities[k]
        /\ log[o].grown[k][2] =
             (IF log[o].grown[k][1] = 0 THEN 1 ELSE (log[o].grown[k][1] * 3 + 1) \div 2)

\* C2 amended: from capacity 0 the capacities after the growth events are
\* 2, 3, 5, 8, 12: the first growth gives 2, every later one (old * 3 + 1) / 2,
\* and each growth starts from the capacity the one before it gave.
ActualCapacities == <<2, 3, 5, 8, 12, 18, 27>>

C2_CapacitySequence ==
  \A o \in Inst :
    FromEmpty(o) =>
      /\ obj[o].capacity =
           (IF log[o].grown = <<>> THEN 0 ELSE log[o].grown[Len(log[o].grown)][2])
      /\ \A k \in 1..Len(log[o].grown) :
           /\ log[o].grown[k][1] = (IF k = 1 THEN 0 ELSE log[o].grown[k - 1][2])
           /\ log[o].grown[k][2] = ActualCapacities[k]
           /\ log[o].grown[k][2] =
                (IF log[o].grown[k][1] = 0 THEN 2 ELSE (log[o].grown[k][1] * 3 + 1) \div 2)

C2_Witness ==
  \E o \in Inst : FromEmpty(o) /\ Len(log[o].grown) >= 3 /\ obj[o].capacity = 5

\* C3: a block a push allocated stays allocated only while a container points
\* to it: once a growth has moved the elements out, the old block is freed.
C3_OldBlockFreed ==
  \A b \in Block :
    (heap[b].st = "live" /\ heap[b].site = "GrowingArray::push") =>
      \E o \in Inst : Live(o) /\ Growing(o) /\ obj[o].begin = b

\* C4: every GrowingArray reachable by construction, push, move and copy()
\* has 0 <= size <= capacity, an element living in every slot of [0, size),
\* and no slot of [size, capacity) destructed.
C4_GrowingInvariant ==
  \A o \in Inst :
    (Growing(o) /\ Live(o)) =>
      /\ 0 <= obj[o].size
      /\ obj[o].size <= obj[o].capacity
      /\ \A i \in 0..(obj[o].size - 1) : Elem(o, i).ok
      /\ \A i \in obj[o].size..(obj[o].capacity - 1) :
           InBlock(heap, obj[o].begin, i) => heap[obj[o].begin].data[i + 1].dtor = 0

\* C5: once malloc has returned nullptr for a block that is needed, the
\* process has been terminated, and nothing was accessed through nullptr.
C5_AllocationFailureFatal == oom => (status = "aborted" /\ "null" \notin ubs)

MovedTo(d, s) == log[d].origin = "none" /\ log'[d].origin = "move" /\ log'[d].from = s
CopiedTo(d, s) == log[d].origin = "none" /\ log'[d].origin = "copy" /\ log'[d].from = s

\* d was move-constructed, and it and its source are destroyed, d still
\* holding the block it took over
MovedAndDestroyed(d) ==
  /\ log[d].origin = "move"
  /\ obj[d].st = "dead"
  /\ obj[log[d].from].st = "dead"
  /\ obj[d].begin = log[d].got

\* C7: a move construction leaves the source with length() = 0 and a null
\* block and gives the destination the source's block, size and so its
\* elements, the heap untouched; no block is ever freed twice and no element
\* destructed twice; and once source and destination are both destroyed the
\* transferred block has been freed once and each of its elements destructed
\* once.
C7_MoveTransfersOwnership ==
  /\ [][\A d \in Inst, s \in Inst :
          MovedTo(d, s) =>
            /\ Live(s)'
            /\ Length(obj'[s]) = 0
            /\ obj'[s].begin = Null
            /\ obj'[d].begin = obj[s].begin
            /\ Length(obj'[d]) = Length(obj[s])
            /\ heap' = heap]_vars
  /\ [](\A b \in Block :
          /\ heap[b].frees <= 1
          /\ \A k \in 1..Len(heap[b].data) : heap[b].data[k].dtor <= 1)
  /\ [](\A d \in Inst :
          (MovedAndDestroyed(d) /\ log[d].got # Null) =>
            /\ heap[log[d].got].frees = 1
            /\ \A k \in 1..Len(heap[log[d].got].data) :
                 heap[log[d].got].data[k].dtor = (IF k <= obj[d].size THEN 1 ELSE 0))

C7_Witness ==
  \E d \in Inst :
    /\ MovedAndDestroyed(d)
    /\ log[d].got # Null
    /\ obj[d].size >= 2
    /\ Len(heap[log[d].got].data) >= 2
    /\ heap[log[d].got].frees = 1

\* C8: copy() returns a container of the same length whose elements hold the
\* values the original holds at that moment, in a block of its own; and no
\* later operation changes the elements of both the original and the copy.
Vals(o) == [i \in 0..(obj[o].size - 1) |-> Elem(o, i)]

C8_CopyIndependent ==
  [][\A d \in Inst, s \in Inst :
       /\ CopiedTo(d, s) =>
            /\ Length(obj'[d]) = Length(obj[s])
            /\ \A i \in 0..(obj[s].size - 1) : Elem(d, i)'.ok /\ Elem(d, i)' = Elem(s, i)
            /\ obj[s].size > 0 => obj'[d].begin # obj[s].begin
            /\ Vals(s)' = Vals(s)
       /\ (log[d].origin = "copy" /\ log[d].from = s /\ Live(d) /\ Live(s)) =>
            ~(Vals(d)' # Vals(d) /\ Vals(s)' # Vals(s))]_vars

\* C9: every block HeapArray(length), HeapArray::copy() and
\* GrowingArray::copy() obtain has room for the elements it is obtained for:
\* at least size * sizeof(T) bytes.
C9_BlockSizedForElements ==
  \A b \in Block :
    heap[b].site \in {"HeapArray", "HeapArray::copy", "GrowingArray::copy"} =>
      /\ heap[b].bytes >= heap[b].want * sizeofT
      /\ Slots(heap, b) >= heap[b].want

\* the slots of the blocks obtained for container o
SlotsOf(o) ==
  {bk \in Block \X (1..(MaxPush * 2)) : heap[bk[1]].owner = o /\ bk[2] <= Len(heap[bk[1]].data)}

\* C10: when a HeapArray constructed with length N, or a GrowingArray that
\* received N pushes, has been destroyed, N elements were constructed in its
\* storage and the same N were destructed, each once.
C10_DestructorCompleteness ==
  \A o \in Inst :
    (obj[o].st = "dead" /\ log[o].origin \in {"ctor", "default"} /\ ~log[o].movedFrom) =>
      LET N == Len(log[o].items)
          constructed == {bk \in SlotsOf(o) : heap[bk[1]].data[bk[2]].ctor > 0}
          destructed == {bk \in SlotsOf(o) : heap[bk[1]].data[bk[2]].dtor > 0}
      IN /\ Cardinality(constructed) = N
         /\ Cardinality(destructed) = N
         /\ constructed = destructed
         /\ \A bk \in SlotsOf(o) :
              heap[bk[1]].data[bk[2]].ctor <= 1 /\ heap[bk[1]].data[bk[2]].dtor <= 1

\* the step is a push on o
Pushed(o) == Growing(o) /\ Live(o) /\ Live(o)' /\ obj'[o].size = obj[o].size + 1

\* o came from copy() and was not pushed to since
FreshCopy(o) ==
  /\ Growing(o) /\ Live(o)
  /\ log[o].origin = "copy"
  /\ log[o].grown = <<>>
  /\ obj[o].size = log[o].n

\* C11: GrowingArray::copy() of a source of size s returns size = s and
\* capacity = s with the source's elements, leaves the source's size, capacity
\* and elements as they were; and the first push on the copy grows it and
\* keeps the s copied elements at their positions.
C11_CopyCapacityIsSize ==
  [][\A d \in Inst :
       /\ \A s \in Inst :
            (CopiedTo(d, s) /\ Growing(s)) =>
              /\ obj'[d].size = obj[s].size
              /\ obj'[d].capacity = obj[s].size
              /\ obj'[s] = obj[s]
              /\ Vals(s)' = Vals(s)
              /\ \A i \in 0..(obj[s].size - 1) : Elem(d, i)'.ok /\ Elem(d, i)' = Elem(s, i)
       /\ (FreshCopy(d) /\ Pushed(d)) =>
            /\ obj'[d].capacity > obj[d].capacity
            /\ Len(log'[d].grown) = 1
            /\ \A i \in 0..(obj[d].size - 1) : Elem(d, i)'.ok /\ Elem(d, i)' = Elem(d, i)]_vars

\* constructed by HeapArray(length), and only stored into since
FromLength(o) == obj[o].kind = "heap" /\ log[o].origin = "ctor" /\ ~log[o].movedFrom

\* C12: a HeapArray constructed with length n keeps length() = n under any
\* sequence of in-bounds stores, and reads back at every index the value last
\* stored there (T() where none was), a store to one index changing no other.
C12_WriteFrame ==
  \A o \in Inst :
    (FromLength(o) /\ Live(o)) =>
      /\ Length(obj[o]) = log[o].n
      /\ Len(log[o].items) = log[o].n
      /\ \A k \in 1..log[o].n : Elem(o, k - 1) = Expect(log[o].items[k])

\* C13: a StackArray initialised from N values has length() = N, the free
\* function length gives N for its c_array, and operator[] returns, for
\* every i < N, the element of c_array at i, which holds the i-th value it
\* was initialised from (or the value stored there since).
C13_StackArrayConstruction ==
  \A o \in Inst :
    (obj[o].kind = "stack" /\ Live(o)) =>
      /\ Length(obj[o]) = log[o].n
      /\ length(obj[o].c_array) = log[o].n
      /\ \A i \in 0..(log[o].n - 1) :
           /\ OperatorIndex(o, obj[o], i) = [abort |-> FALSE, ref |-> <<"c_array", o, i>>]
           /\ obj[o].c_array[i + 1] = log[o].items[i + 1]

C13_Witness ==
  \E o \in Inst :
    /\ obj[o].kind = "stack" /\ Live(o)
    /\ log[o].n = MaxLength
    /\ obj[o].c_array[1] # obj[o].c_array[2]

\* the item the push of this step was given
PushedItem(o) == log'[o].items[Len(log'[o].items)]

\* C14: a push executed with size < capacity allocates nothing, leaves begin
\* and capacity as they were, leaves every element of [0, size) as it was,
\* stores the item at position size and increases size by 1.
C14_PushWithoutGrowth ==
  [][\A o \in Inst :
       (Pushed(o) /\ obj[o].size < obj[o].capacity) =>
         /\ \A b \in Block : heap'[b].st = heap[b].st
         /\ obj'[o].begin = obj[o].begin
         /\ obj'[o].capacity = obj[o].capacity
         /\ obj'[o].size = obj[o].size + 1
         /\ \A i \in 0..(obj[o].size - 1) : Elem(o, i)' = Elem(o, i)
         /\ \A n \in {obj[o].size} : Elem(o, n)' = Expect(PushedItem(o))]_vars

\* C15: the capacity of a GrowingArray changes only in a push executed with
\* size = capacity; such a push makes capacity larger than it was, so larger
\* than size, and the slot it writes lies inside the new block; and size and
\* capacity never decrease while the instance is not moved from.
C15_CapacityChangesOnlyInGrowth ==
  [][\A o \in Inst :
       (Growing(o) /\ Live(o)) =>
         /\ obj'[o].capacity # obj[o].capacity =>
              /\ Pushed(o)
              /\ obj[o].size = obj[o].capacity
              /\ InBlock(heap', obj'[o].begin, obj[o].size)
         /\ (Pushed(o) /\ obj[o].size = obj[o].capacity) =>
              /\ obj'[o].capacity > obj[o].capacity
              /\ obj'[o].capacity > obj[o].size
         /\ ~log'[o].movedFrom =>
              /\ obj'[o].size >= obj[o].size
              /\ obj'[o].capacity >= obj[o].capacity]_vars

C15_Witness ==
  \E o \in Inst :
    /\ Growing(o) /\ Live(o)
    /\ Len(log[o].grown) = 2
    /\ obj[o].size = 3
    /\ obj[o].capacity = 3
    /\ InBlock(heap, obj[o].begin, 2)

\* C16: in the growing_array of array_lib.h every growth makes capacity
\* larger than it was, size <= capacity holds after any sequence of pushes,
\* and so no push writes at an index >= capacity.
C16_VariantGrowthIncreases ==
  \A o \in Inst :
    obj[o].kind = "growing_array" =>
      /\ \A k \in 1..Len(log[o].grown) : log[o].grown[k][2] > log[o].grown[k][1]
      /\ obj[o].size <= obj[o].capacity

\* C17: a GrowingArray, the moved-from source of a move construction
\* included, has a null block only if its capacity is 0, and no operation
\* stores or reads an element through a null block.
C17_NullBlockOnlyIfEmpty ==
  /\ \A o \in Inst :
       (Growing(o) /\ Live(o) /\ obj[o].begin = Null) => obj[o].capacity = 0
  /\ "null" \notin ubs

\* the blocks allocated by HeapArray(length) and HeapArray::copy()
HeapArrayBlocks ==
  {b \in Block : heap[b].st # "unused" /\ heap[b].site \in {"HeapArray", "HeapArray::copy"}}

\* C18: no block a HeapArray operation allocated is freed twice; each one
\* still allocated is the block of a HeapArray not yet destroyed; so once
\* every instance is destroyed each of these blocks has been freed once.
C18_HeapArrayBlocksFreedOnce ==
  /\ \A b \in HeapArrayBlocks : heap[b].frees <= 1
  /\ \A b \in HeapArrayBlocks :
       heap[b].st = "live" =>
         \E o \in Inst : obj[o].kind = "heap" /\ Live(o) /\ obj[o].begin = b
  /\ (\A o \in Inst : obj[o].st = "dead") =>
       \A b \in HeapArrayBlocks : heap[b].st = "freed" /\ heap[b].frees = 1

====
